---- MODULE Spec2Model ----
(***************************************************************************)
(* deepJsonDiff (src/src/index.ts): deep comparison of two JSON objects.   *)
(*                                                                         *)
(* JavaScript values are pairs <<tag, payload>>:                           *)
(*   primitives      tag \in {"null","number","string","boolean"}, payload *)
(*                   the text of the value                                 *)
(*   arrays          tag "array", payload the sequence of elements         *)
(*   plain objects   tag "object", payload the sequence of own enumerable  *)
(*                   properties <<key, value>> in insertion order; their   *)
(*                   prototype is Object.prototype                          *)
(*   Object.prototype itself and its built-in methods, which the `in`      *)
(*   operator and property reads of lines 88-97 can reach through the      *)
(*   prototype chain.                                                      *)
(***************************************************************************)
EXTENDS Integers, Sequences, FiniteSets, TLC

\* source, target: the two arguments of deepJsonDiff as they are on the heap;
\* calls: how many calls have completed; result: what the last call produced;
\* reported: the last call's differences; callLog: the helper calls it made.
VARIABLES source, target, calls, result, reported, callLog

vars == <<source, target, calls, result, reported, callLog>>

-----------------------------------------------------------------------------
(* Values                                                                  *)

Null == <<"null", "null">>
Zero == <<"number", "0">>
NaN == <<"number", "NaN">>
StrZero == <<"string", "0">>
True == <<"boolean", "true">>
Undefined == <<"undefined", "undefined">>
Arr(elems) == <<"array", elems>>
Obj(props) == <<"object", props>>
ObjectPrototype == <<"Object.prototype", <<>>>>
Func(name) == <<"function", name>>

\* The properties every plain object inherits from Object.prototype.
ObjectPrototypeKeys ==
    {"constructor", "__defineGetter__", "__defineSetter__", "hasOwnProperty",
     "__lookupGetter__", "__lookupSetter__", "isPrototypeOf",
     "propertyIsEnumerable", "toString", "valueOf", "__proto__",
     "toLocaleString"}

\* typeof
TypeOf(x) ==
    IF x[1] \in {"null", "array", "object", "Object.prototype"} THEN "object"
    ELSE x[1]

\* Array.isArray
IsArray(x) == x[1] = "array"

\* String(i) for an array index.
Digits == <<"0", "1", "2", "3", "4", "5", "6", "7", "8", "9">>
IndexKey(i) == Digits[i + 1]

\* Object.keys: the own enumerable string keys, array indices first.
ObjectKeys(x) ==
    IF x[1] = "array" THEN [i \in 1..Len(x[2]) |-> IndexKey(i - 1)]
    ELSE IF x[1] = "object" THEN [i \in 1..Len(x[2]) |-> x[2][i][1]]
    ELSE <<>>

\* Position of an own enumerable key (0 when there is none).
KeyAt(keys, key) ==
    IF \E i \in 1..Len(keys) : keys[i] = key
    THEN CHOOSE i \in 1..Len(keys) : keys[i] = key
    ELSE 0

KeyPos(x, key) == KeyAt(ObjectKeys(x), key)

HasOwnProperty(x, key) ==
    \/ KeyPos(x, key) # 0
    \/ x[1] = "array" /\ key = "length"
    \/ x[1] = "Object.prototype" /\ key \in ObjectPrototypeKeys

\* key in x: own or inherited through the prototype chain.
In(key, x) ==
    \/ HasOwnProperty(x, key)
    \/ x[1] \in {"object", "array"} /\ key \in ObjectPrototypeKeys

\* x[key], where pos is the position of the own enumerable key, if any.
GetAt(x, key, pos) ==
    IF pos # 0
    THEN IF x[1] = "array" THEN x[2][pos] ELSE x[2][pos][2]
    ELSE IF key = "__proto__"
    THEN IF x[1] = "object" THEN ObjectPrototype
         ELSE IF x[1] = "Object.prototype" THEN Null
         ELSE Undefined
    ELSE IF key \in ObjectPrototypeKeys /\ x[1] \in {"object", "array", "Object.prototype"}
    THEN Func(key)
    ELSE Undefined

\* x[key]
Get(x, key) == GetAt(x, key, KeyPos(x, key))

\* x once the value at position pos of its own properties has become val.
PutAt(x, key, val, pos) ==
    IF pos = 0 THEN x
    ELSE IF x[1] = "array"
    THEN Arr([i \in 1..Len(x[2]) |-> IF i = pos THEN val ELSE x[2][i]])
    ELSE Obj([i \in 1..Len(x[2]) |-> IF i = pos THEN <<key, val>> ELSE x[2][i]])

\* The object x once the value its own property key refers to has become val
\* (x holds a reference to that value; an inherited value is not part of x).
Put(x, key, val) == PutAt(x, key, val, KeyPos(x, key))

\* val1 === val2 where the two are not both arrays and not both plain objects
\* (line 124): equal type and value, NaN unequal to itself, and two distinct
\* compound values never identical.
StrictEquals(val1, val2) ==
    /\ val1[1] = val2[1]
    /\ val1[1] \notin {"array", "object"}
    /\ val1[2] = val2[2]
    /\ val1 # NaN

-----------------------------------------------------------------------------
(* Text: a string as its sequence of characters                            *)

Chars(s) ==
    CASE s = "null" -> <<"n", "u", "l", "l">>
      [] s = "true" -> <<"t", "r", "u", "e">>
      [] s = "0" -> <<"0">>
      [] s = "a" -> <<"a">>
      [] s = "b" -> <<"b">>
      [] s = "toString" -> <<"t", "o", "S", "t", "r", "i", "n", "g">>
      [] s = "__proto__" -> <<"_", "_", "p", "r", "o", "t", "o", "_", "_">>

RECURSIVE Join(_, _)
Join(texts, sep) ==
    IF Len(texts) = 0 THEN <<>>
    ELSE IF Len(texts) = 1 THEN texts[1]
    ELSE texts[1] \o sep \o Join(Tail(texts), sep)

\* JSON.stringify
RECURSIVE Stringify(_)
Stringify(x) ==
    CASE x[1] = "array" ->
            <<"[">> \o Join([i \in 1..Len(x[2]) |-> Stringify(x[2][i])], <<",">>) \o <<"]">>
      [] x[1] = "object" ->
            <<"{">> \o Join([i \in 1..Len(x[2]) |->
                               <<"\"">> \o Chars(x[2][i][1]) \o <<"\"", ":">>
                               \o Stringify(x[2][i][2])], <<",">>) \o <<"}">>
      [] x[1] = "string" -> <<"\"">> \o Chars(x[2]) \o <<"\"">>
      [] x = NaN -> Chars("null")
      [] OTHER -> Chars(x[2])

\* The collation order of the characters that occur in the texts (Unicode
\* root collation: punctuation, then digits, then letters).
CollationOrder ==
    <<"_", ",", ":", "\"", "[", "]", "{", "}", "0",
      "a", "b", "e", "g", "i", "l", "n", "o", "p", "r", "s", "S", "t", "u">>

CollationRank ==
    [c \in {CollationOrder[i] : i \in 1..Len(CollationOrder)} |->
        CHOOSE i \in 1..Len(CollationOrder) : CollationOrder[i] = c]

\* a.localeCompare(b): negative, zero or positive.
RECURSIVE LocaleCompare(_, _)
LocaleCompare(a, b) ==
    IF Len(a) = 0 /\ Len(b) = 0 THEN 0
    ELSE IF Len(a) = 0 THEN -1
    ELSE IF Len(b) = 0 THEN 1
    ELSE IF CollationRank[a[1]] < CollationRank[b[1]] THEN -1
    ELSE IF CollationRank[a[1]] > CollationRank[b[1]] THEN 1
    ELSE LocaleCompare(Tail(a), Tail(b))

\* String(x) of a template literal (line 125): the text, or "throws" a
\* TypeError when a plain object's own toString is not callable.
RECURSIVE ToStringThrows(_)
ToStringThrows(x) ==
    \/ x[1] = "object" /\ HasOwnProperty(x, "toString")
    \/ x[1] = "array" /\ \E i \in 1..Len(x[2]) : ToStringThrows(x[2][i])

RECURSIVE ToStringJS(_)
ToStringJS(x) ==
    CASE x[1] = "array" ->
            LET part(i) == IF x[2][i][1] \in {"null", "undefined"} THEN ""
                           ELSE ToStringJS(x[2][i])
                RECURSIVE joined(_)
                joined(i) == IF i > Len(x[2]) THEN ""
                             ELSE IF i = Len(x[2]) THEN part(i)
                             ELSE part(i) \o "," \o joined(i + 1)
            IN  joined(1)
      [] x[1] \in {"object", "Object.prototype"} -> "[object Object]"
      [] x[1] = "function" -> "function " \o x[2] \o "() { [native code] }"
      [] OTHER -> x[2]

-----------------------------------------------------------------------------
(* The comparison.  Each helper yields a record                            *)
(*   differences  the differences array it was given, after the call       *)
(*   threw        TRUE when the call ended in a TypeError                  *)
(*   a, b         its two value arguments as they are after the call       *)
(*   log          the helper calls completed so far, in order of return    *)

Entry(op, x, y, key, path, pushed, branch, threw) ==
    [op |-> op, x |-> x, y |-> y, key |-> key, path |-> path,
     pushed |-> pushed, branch |-> branch, threw |-> threw]

\* The differences a call added to the array it was given.
Pushed(before, after) == SubSeq(after, Len(before) + 1, Len(after))

\* The record of the call op(x, y) that took the given branch, was given the
\* differences before and leaves differences.
Return(op, x, y, key, path, branch, before, differences, threw, a, b, log) ==
    [differences |-> differences, threw |-> threw, a |-> a, b |-> b,
     log |-> Append(log, Entry(op, x, y, key, path, Pushed(before, differences),
                               branch, threw))]

\* isValidJSONObject
isValidJSONObject(obj) == obj # Null /\ TypeOf(obj) = "object" /\ ~IsArray(obj)

\* isObject
isObject(value) == TypeOf(value) = "object" /\ value # Null /\ ~IsArray(value)

\* Array.prototype.sort with the comparator of lines 162-164 is a stable
\* sort of the texts: index j goes before the first index whose text
\* compares greater.
RECURSIVE InsertIndex(_, _, _)
InsertIndex(perm, j, texts) ==
    IF Len(perm) = 0 THEN <<j>>
    ELSE IF LocaleCompare(texts[perm[1]], texts[j]) > 0 THEN <<j>> \o perm
    ELSE <<perm[1]>> \o InsertIndex(Tail(perm), j, texts)

RECURSIVE SortIndices(_, _, _)
SortIndices(perm, j, texts) ==
    IF j > Len(texts) THEN perm
    ELSE SortIndices(InsertIndex(perm, j, texts), j + 1, texts)

\* [...array] in the order perm: a new array that shares its elements.
Copy(array, perm) ==
    [sorted |-> Arr([i \in 1..Len(perm) |-> array[2][perm[i]]]),
     perm |-> perm,
     array |-> array]

\* The order in which Array.prototype.sort with the comparator of lines
\* 162-164 leaves the elements: sorted by the text of JSON.stringify.
SortedOrder(array) ==
    SortIndices(<<>>, 1, [i \in 1..Len(array[2]) |-> Stringify(array[2][i])])

\* array.sort(...) without the copy: the argument itself is sorted and returned.
SortInPlace(array) ==
    [sorted |-> Copy(array, SortedOrder(array)).sorted,
     perm |-> [i \in 1..Len(array[2]) |-> i],
     array |-> Copy(array, SortedOrder(array)).sorted]

\* sortArrayByJSONString: sorted is the array returned; array is the argument
\* after the call; perm[i] is the slot of array that holds the element
\* sorted[i].
sortArrayByJSONString(array) == Copy(array, SortedOrder(array))

\* The argument of sortArrayByJSONString once the elements of the array it
\* returned have become those of after (the two share their elements).
ArgumentAfter(s, after) ==
    Arr([j \in 1..Len(s.perm) |->
            after[2][CHOOSE i \in 1..Len(s.perm) : s.perm[i] = j]])

\* The keys of the source alone.
SourceKeys(sourceObject, targetObject) == ObjectKeys(sourceObject)

\* new Set([...Object.keys(sourceObject), ...Object.keys(targetObject)])
AllKeys(sourceObject, targetObject) ==
    LET isNew(k) == KeyPos(sourceObject, k) = 0
    IN  ObjectKeys(sourceObject) \o SelectSeq(ObjectKeys(targetObject), isNew)

RECURSIVE findDifferences(_, _, _, _)
RECURSIVE forEach(_, _, _, _)
RECURSIVE handleKeyComparison(_, _, _, _, _, _)
RECURSIVE compareValues(_, _, _, _, _)
RECURSIVE handleArrayComparison(_, _, _, _, _)
RECURSIVE compareSorted(_, _, _, _, _, _, _)

\* Line 151, once findDifferences has returned r.
PushSorted(arr1, arr2, path, differences, sortedArr1, sortedArr2, r) ==
    Return("handleArrayComparison", arr1, arr2, "", path, "sorted", differences,
           differences \o r.differences, r.threw,
           ArgumentAfter(sortedArr1, r.a), ArgumentAfter(sortedArr2, r.b), r.log)

\* Line 151, with the two arrays sorted.
compareSorted(arr1, arr2, path, differences, log, sortedArr1, sortedArr2) ==
    PushSorted(arr1, arr2, path, differences, sortedArr1, sortedArr2,
               findDifferences(sortedArr1.sorted, sortedArr2.sorted, path, log))

\* The array comparison with only the first array sorted.
SortsFirstOnly(arr1, arr2, path, differences, log) ==
    IF Len(arr1[2]) # Len(arr2[2])
    THEN Return("handleArrayComparison", arr1, arr2, "", path, "length", differences,
                Append(differences, "Different array lengths at " \o path),
                FALSE, arr1, arr2, log)
    ELSE compareSorted(arr1, arr2, path, differences, log,
                       sortArrayByJSONString(arr1),
                       Copy(arr2, [i \in 1..Len(arr2[2]) |-> i]))

handleArrayComparison(arr1, arr2, path, differences, log) ==
    IF Len(arr1[2]) # Len(arr2[2])
    THEN Return("handleArrayComparison", arr1, arr2, "", path, "length", differences,
                Append(differences, "Different array lengths at " \o path),
                FALSE, arr1, arr2, log)
    ELSE compareSorted(arr1, arr2, path, differences, log,
                       sortArrayByJSONString(arr1), sortArrayByJSONString(arr2))

\* Line 117, once handleArrayComparison has returned r.
ArraysCompared(val1, val2, path, differences, r) ==
    Return("compareValues", val1, val2, "", path, "array", differences,
           r.differences, r.threw, r.a, r.b, r.log)

\* Line 121, once findDifferences has returned r.
PushNested(val1, val2, path, differences, r) ==
    Return("compareValues", val1, val2, "", path, "object", differences,
           differences \o r.differences, r.threw, r.a, r.b, r.log)

compareValues(val1, val2, path, differences, log) ==
    IF IsArray(val1) /\ IsArray(val2)
    THEN ArraysCompared(val1, val2, path, differences,
                        handleArrayComparison(val1, val2, path, differences, log))
    ELSE IF isObject(val1) /\ isObject(val2)
    THEN PushNested(val1, val2, path, differences,
                    findDifferences(val1, val2, path, log))
    ELSE IF ~StrictEquals(val1, val2)
    THEN IF ToStringThrows(val1) \/ ToStringThrows(val2)
         THEN Return("compareValues", val1, val2, "", path, "strict", differences,
                     differences, TRUE, val1, val2, log)
         ELSE Return("compareValues", val1, val2, "", path, "strict", differences,
                     Append(differences, "Different values at " \o path \o ": "
                            \o ToStringJS(val1) \o " vs " \o ToStringJS(val2)),
                     FALSE, val1, val2, log)
    ELSE Return("compareValues", val1, val2, "", path, "strict", differences,
                differences, FALSE, val1, val2, log)

\* Line 97, once compareValues has returned r.
ValuesCompared(sourceObject, targetObject, key, path, differences, r) ==
    Return("handleKeyComparison", sourceObject, targetObject, key, path,
           "compareValues", differences, r.differences, r.threw,
           Put(sourceObject, key, r.a), Put(targetObject, key, r.b), r.log)

handleKeyComparison(sourceObject, targetObject, key, path, differences, log) ==
    IF ~In(key, targetObject)
    THEN Return("handleKeyComparison", sourceObject, targetObject, key, path,
                "missingInTarget", differences,
                Append(differences, path \o " missing in target object"),
                FALSE, sourceObject, targetObject, log)
    ELSE IF ~In(key, sourceObject)
    THEN Return("handleKeyComparison", sourceObject, targetObject, key, path,
                "missingInSource", differences,
                Append(differences, path \o " missing in source object"),
                FALSE, sourceObject, targetObject, log)
    ELSE ValuesCompared(sourceObject, targetObject, key, path, differences,
                        compareValues(Get(sourceObject, key), Get(targetObject, key),
                                      path, differences, log))

\* newPath of line 58.
NewPath(path, key) == IF path # "" THEN path \o "." \o key ELSE key

\* allKeys.forEach of lines 57-66, from the i-th key on; acc holds the
\* differences found so far and the two objects as they are now.
forEach(acc, allKeys, i, path) ==
    IF i > Len(allKeys) \/ acc.threw THEN acc
    ELSE forEach(handleKeyComparison(acc.a, acc.b, allKeys[i],
                                     NewPath(path, allKeys[i]),
                                     acc.differences, acc.log),
                 allKeys, i + 1, path)

findDifferences(sourceObject, targetObject, path, log) ==
    forEach([differences |-> <<>>, threw |-> FALSE, a |-> sourceObject,
             b |-> targetObject, log |-> log],
            AllKeys(sourceObject, targetObject), 1, path)

\* What a call produces: "true" or "false" returned, or the error thrown.
InvalidInputError == "Error: Both inputs must be valid JSON-like objects."
TypeError == "TypeError: Cannot convert object to primitive value"

\* Lines 178-181, once findDifferences has returned r.
Verdict(r) ==
    [result |-> IF r.threw THEN TypeError
                ELSE IF Len(r.differences) = 0 THEN "true" ELSE "false",
     differences |-> r.differences, a |-> r.a, b |-> r.b, log |-> r.log]

deepJsonDiff(sourceObject, targetObject) ==
    IF ~isValidJSONObject(sourceObject) \/ ~isValidJSONObject(targetObject)
    THEN [result |-> InvalidInputError, differences |-> <<>>,
          a |-> sourceObject, b |-> targetObject, log |-> <<>>]
    ELSE Verdict(findDifferences(sourceObject, targetObject, "", <<>>))

-----------------------------------------------------------------------------
(* The inputs                                                              *)

MaxLen == 2
MaxCalls == 2

\* The primitives; NaN is a number of the language that no JSON text denotes.
JSONPrimitives == {Null, True, Zero, StrZero}
Primitives == JSONPrimitives \cup {NaN}
Elements == {Null, Zero, NaN}
PropertyKeys == {"a", "toString", "__proto__"}
PlainKeys == {"a", "b"}

\* The sequences of length n over S.
Tuples(n, S) == [1..n -> S]

\* Arrays of at most MaxLen elements.
ArraysOf(S) == {Arr(es) : es \in UNION {Tuples(n, S) : n \in 0..MaxLen}}

\* Objects with at most one property.
SingleObjectsOf(K, S) == {Obj(<<>>)} \cup {Obj(<<<<k, x>>>>) : k \in K, x \in S}

\* Objects with two properties, in either order of insertion.
PairObjectsOf(K, S) ==
    {Obj(<<<<k[1], x>>, <<k[2], y>>>>) : k \in {kk \in K \X K : kk[1] # kk[2]},
                                          x \in S, y \in S}

\* The values one level below the top.
Nested ==
    Primitives \cup ArraysOf(Elements) \cup SingleObjectsOf(PropertyKeys, Primitives)

\* The values of the two-property arguments: a primitive, arrays of two
\* lengths, and objects.
Samples ==
    {Zero, Null, Arr(<<>>), Arr(<<Zero>>), Obj(<<>>), Obj(<<<<"toString", Zero>>>>)}

\* The arguments a caller may pass: objects, and the invalid ones.
Arguments ==
    SingleObjectsOf(PropertyKeys, Nested) \cup PairObjectsOf(PlainKeys, Samples)
    \cup Primitives \cup {Arr(<<>>), Arr(<<Zero>>)}

\* The permutations of 1..n.
IndexPermutations(n) == {p \in [1..n -> 1..n] : \A i, j \in 1..n : p[i] = p[j] => i = j}

\* The sequences whose i-th element is drawn from sets[i].
RECURSIVE Choices(_)
Choices(sets) ==
    IF Len(sets) = 0 THEN {<<>>}
    ELSE {<<x>> \o rest : x \in sets[1], rest \in Choices(Tail(sets))}

\* The values x can be rearranged into: the elements of its arrays permuted
\* (when arrays) and the properties of its objects reordered (when keys), at
\* every depth.
RECURSIVE Rearrangements(_, _, _)
Rearrangements(x, arrays, keys) ==
    IF x[1] = "array"
    THEN LET inner == Choices([i \in 1..Len(x[2]) |-> Rearrangements(x[2][i], arrays, keys)])
             perms == IF arrays THEN IndexPermutations(Len(x[2]))
                      ELSE {[i \in 1..Len(x[2]) |-> i]}
         IN  {Arr([i \in 1..Len(x[2]) |-> es[p[i]]]) : es \in inner, p \in perms}
    ELSE IF x[1] = "object"
    THEN LET inner == Choices([i \in 1..Len(x[2]) |->
                          {<<x[2][i][1], y>> : y \in Rearrangements(x[2][i][2], arrays, keys)}])
             perms == IF keys THEN IndexPermutations(Len(x[2]))
                      ELSE {[i \in 1..Len(x[2]) |-> i]}
         IN  {Obj([i \in 1..Len(x[2]) |-> ps[p[i]]]) : ps \in inner, p \in perms}
    ELSE {x}

\* Deeper arguments: an array of two cells, each an array or an object of two
\* JSON primitives, compared with a rearrangement of itself.
Cells ==
    {Arr(<<x, y>>) : x, y \in JSONPrimitives \ {True}}
    \cup PairObjectsOf(PlainKeys, JSONPrimitives \ {True})

Nestings == {Obj(<<<<"a", Arr(<<c, d>>)>>>>) : c, d \in Cells}

Inputs ==
    (Arguments \X Arguments)
    \cup UNION {{<<x, y>> : y \in Rearrangements(x, TRUE, TRUE)} : x \in Nestings}

-----------------------------------------------------------------------------
(* The state machine: a caller holds two arguments and calls deepJsonDiff  *)
(* on them, MaxCalls times.                                                *)

Init ==
    /\ \E in \in Inputs : source = in[1] /\ target = in[2]
    /\ calls = 0
    /\ result = "none"
    /\ reported = <<>>
    /\ callLog = <<>>

\* The caller's state once a call has produced r.
Completed(r) ==
    /\ result' = r.result
    /\ reported' = r.differences
    /\ callLog' = r.log
    /\ source' = r.a
    /\ target' = r.b
    /\ calls' = calls + 1

Call ==
    /\ calls < MaxCalls
    /\ Completed(deepJsonDiff(source, target))

Next == Call

Spec == Init /\ [][Next]_vars

-----------------------------------------------------------------------------
(* Properties of deepJsonDiff, stated on the caller's state after a call.   *)

\* null, a primitive or an array.
NullPrimitiveOrArray(x) == x[1] \in {"null", "number", "string", "boolean", "array"}

\* A plain object: not null, not an array, of type "object".
PlainObject(x) == x[1] \in {"object", "Object.prototype"}

\* The set of a value's own enumerable keys.
OwnKeys(x) == {ObjectKeys(x)[i] : i \in 1..Len(ObjectKeys(x))}

\* Built from null, booleans, finite numbers, strings, objects and arrays.
RECURSIVE IsJSON(_)
IsJSON(x) ==
    CASE x[1] = "array" -> \A i \in 1..Len(x[2]) : IsJSON(x[2][i])
      [] x[1] = "object" -> \A i \in 1..Len(x[2]) : IsJSON(x[2][i][2])
      [] OTHER -> x \in JSONPrimitives

\* Strict equality of two values that are not two arrays or two objects.
StrictlyEqual(x, y) == ~PlainObject(x) /\ ~IsArray(x) /\ x = y /\ x # NaN

\* Deep equality up to the order of array elements.
RECURSIVE DeepEqual(_, _)
DeepEqual(x, y) ==
    IF x[1] = "object" /\ y[1] = "object"
    THEN /\ OwnKeys(x) = OwnKeys(y)
         /\ \A k \in OwnKeys(x) : DeepEqual(Get(x, k), Get(y, k))
    ELSE IF x[1] = "array" /\ y[1] = "array"
    THEN /\ Len(x[2]) = Len(y[2])
         /\ \E p \in IndexPermutations(Len(x[2])) :
                \A i \in 1..Len(x[2]) : DeepEqual(x[2][i], y[2][p[i]])
    ELSE StrictlyEqual(x, y)

\* C1: a call fails with the invalid-input error exactly when one of the two
\* top-level arguments is null, a primitive or an array; it then has compared
\* no key and produced no verdict; and a call on two top-level plain objects
\* returns a boolean and never raises, whatever is nested in them.
C1_InvalidInputOnlyAtTopLevel ==
    calls >= 1 =>
        /\ (result = InvalidInputError)
              <=> (NullPrimitiveOrArray(source) \/ NullPrimitiveOrArray(target))
        /\ (result = InvalidInputError) => (callLog = <<>> /\ reported = <<>>)
        /\ (PlainObject(source) /\ PlainObject(target)) => result \in {"true", "false"}

\* C2: reflexivity: for every JSON object x (no NaN, which no JSON text
\* denotes), compare(x, x) returns true.
C2_Reflexivity ==
    (calls >= 1 /\ source = target /\ PlainObject(source) /\ IsJSON(source))
        => result = "true"

\* An object holding an array of arrays or objects that sorting reorders has
\* been compared with itself.
C2_Witness ==
    /\ calls >= 1
    /\ source = target
    /\ source \in Nestings
    /\ sortArrayByJSONString(Get(source, "a")).perm = <<2, 1>>
    /\ result = "true"

\* C3: symmetry of the outcome: for two top-level objects, compare(b, a)
\* produces what compare(a, b) produced (the same boolean, or the same error),
\* though the messages differ.
C3_Symmetry ==
    (calls >= 1 /\ PlainObject(source) /\ PlainObject(target))
        => deepJsonDiff(target, source).result = result

\* A key missing in the target has been reported, and the call with the
\* arguments swapped reports it missing in the source.
C3_Witness ==
    /\ calls >= 1
    /\ result = "false"
    /\ reported = <<"b missing in target object">>
    /\ deepJsonDiff(target, source).differences = <<"b missing in source object">>

\* C4: key-order invariance: reordering the keys of any object anywhere in
\* source or target does not change what compare(source, target) produces.
C4_KeyOrderInvariance ==
    (calls >= 1 /\ PlainObject(source) /\ PlainObject(target))
        => \A s \in Rearrangements(source, FALSE, TRUE),
              t \in Rearrangements(target, FALSE, TRUE) :
                deepJsonDiff(s, t).result = result

\* C5: array-order invariance: permuting the elements of any array anywhere
\* in source or target does not change what compare(source, target) produces.
C5_ArrayOrderInvariance ==
    (calls >= 1 /\ PlainObject(source) /\ PlainObject(target))
        => \A s \in Rearrangements(source, TRUE, FALSE),
              t \in Rearrangements(target, TRUE, FALSE) :
                deepJsonDiff(s, t).result = result

\* C6: whenever two arrays of different lengths are compared, the verdict is
\* false and that comparison records exactly one difference, the length
\* mismatch, without sorting or recursing into the arrays.
C6_LengthMismatchShortCircuit ==
    calls >= 1 =>
        \A i \in DOMAIN callLog :
            (/\ callLog[i].op = "handleArrayComparison"
             /\ Len(callLog[i].x[2]) # Len(callLog[i].y[2]))
                => /\ result = "false"
                   /\ callLog[i].branch = "length"
                   /\ callLog[i].pushed
                        = <<"Different array lengths at " \o callLog[i].path>>

\* C7: for two objects compared at any depth, a key that only one of them has
\* records exactly one difference (missing in target, or missing in source)
\* and its values are not dispatched; and the verdict is false whenever the
\* key sets of two compared objects differ.
C7_MissingKeyDetection ==
    calls >= 1 =>
        \A i \in DOMAIN callLog :
            callLog[i].op = "handleKeyComparison" =>
                /\ (callLog[i].key \in OwnKeys(callLog[i].x) \ OwnKeys(callLog[i].y))
                      => /\ callLog[i].branch = "missingInTarget"
                         /\ callLog[i].pushed
                              = <<callLog[i].path \o " missing in target object">>
                /\ (callLog[i].key \in OwnKeys(callLog[i].y) \ OwnKeys(callLog[i].x))
                      => /\ callLog[i].branch = "missingInSource"
                         /\ callLog[i].pushed
                              = <<callLog[i].path \o " missing in source object">>
                /\ (OwnKeys(callLog[i].x) # OwnKeys(callLog[i].y)) => result = "false"

\* C8: a call leaves source and target as they were, whether it returns or
\* raises, and a second call on the same arguments produces what the first did.
C8_NoMutation ==
    [][/\ source' = source
       /\ target' = target
       /\ (calls >= 1 => result' = result)]_vars

\* Two calls have compared arrays that sorting reorders.
C8_Witness ==
    /\ calls = 2
    /\ source = Obj(<<<<"a", Arr(<<Null, Zero>>)>>>>)
    /\ target = Obj(<<<<"a", Arr(<<Zero, Null>>)>>>>)
    /\ result = "true"

\* C9: two values at a key of both objects go to the array comparison when
\* both are arrays, to key reconciliation when both are plain objects, and
\* otherwise to strict equality, which records a difference exactly when they
\* are not strictly equal; so a mismatch of shapes gives the verdict false and
\* never an error, and equal primitives record nothing.
C9_ValueDispatch ==
    calls >= 1 =>
        \A i \in DOMAIN callLog :
            callLog[i].op = "compareValues" =>
                IF IsArray(callLog[i].x) /\ IsArray(callLog[i].y)
                THEN callLog[i].branch = "array"
                ELSE IF PlainObject(callLog[i].x) /\ PlainObject(callLog[i].y)
                THEN callLog[i].branch = "object"
                ELSE /\ callLog[i].branch = "strict"
                     /\ (callLog[i].pushed # <<>>)
                          <=> ~StrictlyEqual(callLog[i].x, callLog[i].y)
                     /\ Len(callLog[i].pushed) <= 1
                     /\ (\/ IsArray(callLog[i].x) \/ IsArray(callLog[i].y)
                         \/ PlainObject(callLog[i].x) \/ PlainObject(callLog[i].y))
                          => (result = "false" /\ ~callLog[i].threw)

\* C10: soundness of true: if compare(source, target) returns true, source and
\* target are deeply equal up to the order of array elements.
C10_TrueIsSound ==
    (calls >= 1 /\ result = "true") => DeepEqual(source, target)

====
